---------------------------- MODULE Spec2Model ----------------------------
(***************************************************************************)
(* RizzMaster: the scoring state machine (hooks/useGameState.ts) and the   *)
(* chat-turn protocol (hooks/useChat.ts, components/ChatScreen.tsx) over   *)
(* AsyncStorage and the remote chat-completion endpoint.                   *)
(*                                                                         *)
(* React is modelled as follows.  The state variables hold the hooks'      *)
(* state.  Every handler or promise continuation runs to its next await as *)
(* one action; the setState calls it makes are batched, and the re-render  *)
(* they schedule, with the useEffect callbacks whose dependencies changed, *)
(* is part of the same action.  Event handlers therefore read the current  *)
(* state, while the continuation of an awaited fetch reads the values its  *)
(* closure captured when sendMessage was called (kept in the request).     *)
(* AsyncStorage executes its calls one at a time in the order they were    *)
(* issued (storageQueue); a call's continuation runs when it is executed.  *)
(***************************************************************************)
EXTENDS Integers, Sequences, FiniteSets, TLC

VARIABLES
    profileId,      \* profile.id of the mounted ChatScreen
    difficulty,     \* profile.difficulty: [toleranceRed, minGreenForSecondDate]
    apiKey,         \* process.env.EXPO_PUBLIC_OPENAI_API_KEY is set
    flagStats,      \* useGameState: useState<FlagStats>
    gameStatus,     \* useGameState: useState<GameStatus>
    messages,       \* useChat: useState<Message[]>
    sending,        \* useChat: useState(false)
    loadingPrompt,  \* useChat: useState(true)
    systemPrompt,   \* useChat: useState('')
    promptError,    \* useChat: useState<string | null>
    networkError,   \* useChat: useState<string | null>
    promptPending,  \* loadPrompt() has not settled yet
    requests,       \* fetch calls awaiting their response, oldest first
    storageQueue,   \* AsyncStorage calls issued and not yet executed
    flagsStore,     \* AsyncStorage: rizzmaster_flags_<id>
    chatStore,      \* AsyncStorage: rizzmaster_chat_<id>
    matchedStore,   \* AsyncStorage: rizzmaster_matched_profiles
    conversations,  \* Homepage, ConversationList: useState<ConversationPreview[]>
    resetting,      \* resetGame() calls between resetChat() and resetGameState()
    mounts,         \* times ChatScreen was mounted
    resets,         \* times resetGame was called
    turns,          \* times sendMessage passed its guard
    ev,             \* the handler or continuation that ran last
    applied,        \* sum of the deltas passed to updateFlags since mount/reset
    expected,       \* the state at the last mount, or that a reset came last,
                    \* until the next submit
    fnIn,           \* pure-function harness: the arguments
    fnOut           \* pure-function harness: the result

vars == <<profileId, difficulty, apiKey, flagStats, gameStatus, messages,
          sending, loadingPrompt, systemPrompt, promptError, networkError,
          promptPending, requests, storageQueue, flagsStore, chatStore,
          matchedStore, conversations, resetting, mounts, resets, turns, ev, applied, expected, fnIn,
          fnOut>>

---------------------------------------------------------------------------
(* Bounds of the model. *)

MaxTolerance == 2     \* toleranceRed ranges over 1..MaxTolerance
MaxMinGreen  == 2     \* minGreenForSecondDate ranges over 1..MaxMinGreen
MaxDelta     == 1     \* a completion reports 0..MaxDelta green and red flags
MaxTurns     == 2     \* sendMessage passes its guard at most this many times
MaxMounts    == 2     \* ChatScreen is mounted at most this many times
MaxResets    == 1     \* resetGame is called at most this many times
MaxPureTally == 3     \* pure-function harness: counts range over 0..MaxPureTally
MaxPureDelta == 2     \* pure-function harness: deltas range over 0..MaxPureDelta
MaxPureLevel == 4     \* pure-function harness: thresholds range over 1..MaxPureLevel
MaxHomeCalls == 6     \* Homepage issues a removal while at most this many
                      \* AsyncStorage calls would then be pending

---------------------------------------------------------------------------
(* Values. *)

NULL == "null"
Absent == [absent |-> TRUE]          \* AsyncStorage.getItem resolves to null

Chars == {"c1"}

GAME_OVER == "GAME_OVER"
GAME_WON  == "GAME_WON"

DefaultFlags == [green |-> 0, red |-> 0, hardNo |-> FALSE]

Difficulties ==
    [toleranceRed : 1..MaxTolerance, minGreenForSecondDate : 1..MaxMinGreen]

(* A string is its content without the surrounding white space (core) and  *)
(* whether white space surrounds it (ws).                                  *)
EmptyCore == [t |-> "empty"]
PlainCore(txt) == [t |-> "plain", txt |-> txt]
JsonCore(val) == [t |-> "json", val |-> val]

Str(ws, core) == [ws |-> ws, core |-> core]
EmptyStr == Str(FALSE, EmptyCore)

\* String.prototype.trim
trim(s) == [s EXCEPT !.ws = FALSE]

\* !s for a string s: only '' is falsy
Falsy(s) == s = EmptyStr

---------------------------------------------------------------------------
(* useGameState.updateFlags: the new tally and the status it returns. *)

updateFlagsNoHardNo(stats, detectedFlags, diff) ==
    LET newGreen == stats.green + detectedFlags.green
        newRed == stats.red + detectedFlags.red
        newHardNo == stats.hardNo \/ detectedFlags.hardNo
    IN  [flagStats |-> [green |-> newGreen, red |-> newRed, hardNo |-> newHardNo],
         finalGameStatus |->
            IF newRed >= diff.toleranceRed THEN GAME_OVER
            ELSE IF newGreen >= diff.minGreenForSecondDate
                    /\ newRed < diff.toleranceRed THEN GAME_WON
            ELSE NULL]

updateFlags(stats, detectedFlags, diff) ==
    LET newGreen == stats.green + detectedFlags.green
        newRed == stats.red + detectedFlags.red
        newHardNo == stats.hardNo \/ detectedFlags.hardNo
    IN  [flagStats |-> [green |-> newGreen, red |-> newRed, hardNo |-> newHardNo],
         finalGameStatus |->
            IF newRed >= diff.toleranceRed \/ newHardNo THEN GAME_OVER
            ELSE IF newGreen >= diff.minGreenForSecondDate
                    /\ newRed < diff.toleranceRed THEN GAME_WON
            ELSE NULL]

---------------------------------------------------------------------------
(* JSON values, as JSON.parse returns them, and the texts they come from.  *)

JUndef == [j |-> "undefined"]                 \* a property that is absent
JNull == [j |-> "null"]
JNum(n) == [j |-> "number", n |-> n]
JBool(b) == [j |-> "boolean", b |-> b]
JStr(s) == [j |-> "string", s |-> s]
JArr == [j |-> "array"]                       \* an array, whatever it holds
JFlags(g, r, h) == [j |-> "flags", green |-> g, red |-> r, hardNo |-> h]
JPayload(m, f, gs) ==
    [j |-> "payload", message |-> m, flagsDetected |-> f, gameStatus |-> gs]

\* JSON.stringify(v) for a value the hooks persist: the text, by its value
JsonText(v) == [json |-> v]

\* a stored text the hooks did not write: the empty string, a text that is
\* not JSON, and the JSON texts null, 5 and {}
ForeignKinds == {"empty", "garbage", "null", "number", "object"}
ForeignText(kind) == [foreign |-> kind]
IsForeign(raw) == "foreign" \in DOMAIN raw

\* x is truthy (the left operand of x || y is returned)
Truthy(v) ==
    CASE v.j = "undefined" -> FALSE
      [] v.j = "null" -> FALSE
      [] v.j = "number" -> v.n # 0
      [] v.j = "boolean" -> v.b
      [] v.j = "string" -> ~Falsy(v.s)
      [] OTHER -> TRUE

OrElse(v, d) == IF Truthy(v) THEN v ELSE d

\* parsed.flagsDetected?.name
FlagOfIgnored(f, name) == JUndef

FlagOf(f, name) == IF f.j = "flags" THEN f[name] ELSE JUndef

\* the completions the endpoint returns in this model
OkMessage == JStr(Str(FALSE, PlainCore("ok")))

ReplyPayload(g, r, h) ==
    Str(FALSE, JsonCore(JPayload(OkMessage, JFlags(JNum(g), JNum(r), JBool(h)), JNull)))

PlainReply == Str(TRUE, PlainCore("oops"))

\* the endpoint returns the text of a language model: nothing makes the
\* counts it reports non-negative
NegativeReply == ReplyPayload(0 - 1, 0, FALSE)

\* a completion that reports a gameStatus of its own, with the message and
\* the flagsDetected of ReplyPayload(0, 0, FALSE)
StatusReply(gs) ==
    Str(FALSE, JsonCore(JPayload(OkMessage, JFlags(JNum(0), JNum(0), JBool(FALSE)),
                                 JStr(Str(FALSE, PlainCore(gs))))))

Completions ==
    {ReplyPayload(g, r, h) : g \in 0..MaxDelta, r \in 0..MaxDelta, h \in BOOLEAN}
        \cup {PlainReply, NegativeReply}
        \cup {StatusReply(GAME_WON)}

\* useChat.ts:154, the content used when the response carries none
FallbackContent ==
    Str(FALSE, JsonCore(JPayload(JStr(Str(FALSE, PlainCore("Impossible de lire la reponse."))),
                                 JFlags(JNum(0), JNum(0), JBool(FALSE)), JNull)))

UserInputs ==
    {Str(TRUE, EmptyCore), Str(FALSE, PlainCore("hi")), Str(TRUE, PlainCore("hi"))}

---------------------------------------------------------------------------
(* useChat.parseAssistantResponse *)

DefaultResponseHardNo ==
    [message |-> JStr(EmptyStr),
     flagsDetected |-> [green |-> 0, red |-> 0, hardNo |-> TRUE],
     gameStatus |-> JNull]

DefaultResponse ==
    [message |-> JStr(EmptyStr), flagsDetected |-> DefaultFlags, gameStatus |-> JNull]

parseAssistantResponse(raw) ==
    IF Falsy(raw) THEN DefaultResponse
    ELSE IF raw.core.t # "json" \/ raw.core.val.j = "null"
         \* JSON.parse throws, or parsed.message throws on null
         THEN [DefaultResponse EXCEPT !.message = JStr(trim(raw))]
    ELSE LET parsed == raw.core.val
             f == IF parsed.j = "payload" THEN parsed.flagsDetected ELSE JUndef
         IN  [message |->
                 OrElse(IF parsed.j = "payload" THEN parsed.message ELSE JUndef,
                        JStr(EmptyStr)),
              flagsDetected |->
                 [green |-> OrElse(FlagOf(f, "green"), JNum(0)).n,
                  red |-> OrElse(FlagOf(f, "red"), JNum(0)).n,
                  hardNo |-> OrElse(FlagOf(f, "hardNo"), JBool(FALSE)).b],
              gameStatus |->
                 OrElse(IF parsed.j = "payload" THEN parsed.gameStatus ELSE JUndef,
                        JNull)]

---------------------------------------------------------------------------
(* useChat.parseAssistantMessage: the text ChatScreen displays *)

parseAssistantMessage(raw) ==
    IF Falsy(raw) THEN EmptyStr
    ELSE IF /\ raw.core.t = "json"
            /\ Truthy(raw.core.val)
            /\ raw.core.val.j = "payload"
            /\ raw.core.val.message.j = "string"
         THEN trim(raw.core.val.message.s)
         ELSE trim(raw)

---------------------------------------------------------------------------
(* AsyncStorage calls. *)

StorageCall(op, store, id, value, then) ==
    [op |-> op, store |-> store, id |-> id, value |-> value, then |-> then]

\* useGameState.ts:37-49, the effect on [flagStats, gameStatus, FLAGS_STORAGE_KEY]
persistFlags(id, stats, status) ==
    StorageCall("setItem", "flags", id,
                JsonText([stats |-> stats, gameStatus |-> status]), "none")

\* useChat.ts:94-103, the effect on [messages, CHAT_STORAGE_KEY]
persistHistory(id, msgs) ==
    StorageCall("setItem", "chat", id, JsonText(msgs), "none")

\* the effects of the first render, in the order the hooks declare them
MountEffectsPersistFirst(id) ==
    << persistFlags(id, DefaultFlags, NULL),
       StorageCall("getItem", "flags", id, Absent, "loadFlags"),
       persistHistory(id, <<>>),
       StorageCall("getItem", "chat", id, Absent, "loadHistory") >>

MountEffects(id) ==
    << StorageCall("getItem", "flags", id, Absent, "loadFlags"),
       persistFlags(id, DefaultFlags, NULL),
       StorageCall("getItem", "chat", id, Absent, "loadHistory"),
       persistHistory(id, <<>>) >>

UserMessage(text) == [role |-> "user", content |-> text]
AssistantMessage(text) == [role |-> "assistant", content |-> text]

NothingLoaded == [set |-> FALSE]

\* useGameState.ts:25-29: what loadFlags sets for the text getItem resolved
\* to.  Nothing when the text is null or '' (falsy), when JSON.parse throws
\* and when parsedFlags is null (reading .stats throws); the defaults when
\* parsedFlags has no stats and no gameStatus.
parseStoredFlags(flagsRaw) ==
    IF flagsRaw = Absent THEN NothingLoaded
    ELSE IF IsForeign(flagsRaw)
    THEN IF flagsRaw.foreign \in {"empty", "garbage", "null"}
         THEN NothingLoaded
         ELSE [set |-> TRUE, stats |-> DefaultFlags, gameStatus |-> NULL]
    ELSE [set |-> TRUE, stats |-> flagsRaw.json.stats,
          gameStatus |-> flagsRaw.json.gameStatus]

\* useChat.ts:78-83 without the Array.isArray test
parseStoredHistoryAnyJson(raw) ==
    IF raw = Absent THEN NothingLoaded
    ELSE IF IsForeign(raw)
    THEN IF raw.foreign \in {"empty", "garbage"}
         THEN NothingLoaded
         ELSE [set |-> TRUE, messages |-> <<raw.foreign>>]
    ELSE [set |-> TRUE, messages |-> raw.json]

\* useChat.ts:78-83: what loadHistory sets.  Nothing when the text is null
\* or '', when JSON.parse throws and when the value is not an array.
parseStoredHistory(raw) ==
    IF raw = Absent THEN NothingLoaded
    ELSE IF IsForeign(raw) THEN NothingLoaded
    ELSE [set |-> TRUE, messages |-> raw.json]

NoEvent == [name |-> "mount", out |-> "none"]
Event(name, out) == [name |-> name, out |-> out]

NoExpectation == [none |-> TRUE]
AfterReset == [reset |-> TRUE]
NoCall == [none |-> TRUE]

---------------------------------------------------------------------------
(* The state after ChatScreen's first render and its effects. *)

PromptText == "script"
PromptErrorText == "Impossible de charger le prompt (script.txt)."
NetworkErrorText == "Erreur lors de l'appel a ChatGPT."

InitHooks ==
    /\ profileId = "c1"
    /\ difficulty \in Difficulties
    /\ apiKey \in BOOLEAN
    /\ flagStats = DefaultFlags
    /\ gameStatus = NULL
    /\ messages = <<>>
    /\ sending = FALSE
    /\ loadingPrompt = TRUE
    /\ systemPrompt = ""
    /\ promptError = NULL
    /\ networkError = NULL
    /\ promptPending = TRUE
    /\ requests = <<>>
    /\ storageQueue = MountEffects("c1")
    /\ matchedStore = Absent
    /\ conversations = <<>>
    /\ resetting = 0
    /\ mounts = 1
    /\ resets = 0
    /\ turns = 0
    /\ ev = NoEvent
    /\ applied = DefaultFlags
    /\ expected = NoExpectation

\* nothing is stored when the app is first started
InitSystem ==
    /\ InitHooks
    /\ flagsStore = [c \in Chars |-> Absent]
    /\ chatStore = [c \in Chars |-> Absent]

Init ==
    /\ InitSystem
    /\ fnIn = NoCall
    /\ fnOut = NoCall

profileVars == <<profileId, difficulty, apiKey>>
gameVars == <<flagStats, gameStatus>>
promptVars == <<loadingPrompt, systemPrompt, promptError, promptPending>>
storeVars == <<flagsStore, chatStore>>
homeVars == <<matchedStore, conversations>>
pureVars == <<fnIn, fnOut>>
countVars == <<mounts, resets, turns>>

(* A setItem, and the removeItem that ends resetGame, have no continuation  *)
(* that sets state, and no handler reads the store except through a        *)
(* getItem queued behind them: when they are executed is not observable by *)
(* the hooks.  The model executes such a call as soon as it is the oldest  *)
(* one, before any handler runs; the state in which it is still pending    *)
(* remains a state of the model.                                           *)
Writing ==
    /\ storageQueue # <<>>
    /\ \/ Head(storageQueue).op = "setItem"
       \/ Head(storageQueue).then = "resetGameState"

---------------------------------------------------------------------------
(* useChat.loadPrompt settles: the script was read, or reading it threw. *)

loadPrompt(ok) ==
    /\ ~Writing
    /\ promptPending
    /\ promptPending' = FALSE
    /\ IF ok
       THEN systemPrompt' = PromptText /\ UNCHANGED promptError
       ELSE promptError' = PromptErrorText /\ UNCHANGED systemPrompt
    /\ loadingPrompt' = FALSE
    /\ ev' = Event("loadPrompt", IF ok THEN "ok" ELSE "failed")
    /\ UNCHANGED <<profileVars, homeVars, gameVars, messages, sending, networkError,
                   requests, storageQueue, storeVars, resetting, countVars, applied, expected, pureVars>>

---------------------------------------------------------------------------
(* ChatScreen.handleSend and useChat.sendMessage up to its first await. *)

isSendDisabled(input) ==
    sending \/ loadingPrompt \/ Falsy(trim(input)) \/ gameStatus # NULL

sendMessageIgnoresPrompt(input) ==
    \/ Falsy(trim(input))
    \/ sending
    \/ loadingPrompt
    \/ gameStatus # NULL

sendMessageReturnsEarly(input) ==
    \/ Falsy(trim(input))
    \/ sending
    \/ loadingPrompt
    \/ systemPrompt = ""
    \/ gameStatus # NULL

\* useChat.ts:110-114: the state sendMessage sets before the try block
beginSendNotBusy(msgs, input) ==
    [messages |-> Append(msgs, UserMessage(trim(input))),
     sending |-> FALSE,
     networkError |-> NULL]

beginSendKeepsError(msgs, input) ==
    [messages |-> Append(msgs, UserMessage(trim(input))),
     sending |-> TRUE,
     networkError |-> networkError]

beginSend(msgs, input) ==
    [messages |-> Append(msgs, UserMessage(trim(input))),
     sending |-> TRUE,
     networkError |-> NULL]

\* useChat.ts:160-167: the catch block and the finally
failSendKeepsSending == [networkError |-> NetworkErrorText, sending |-> TRUE]

failSend == [networkError |-> NetworkErrorText, sending |-> FALSE]

\* useChat.ts:159: the message appended for a completion
storedDisplayText(content) ==
    [role |-> "assistant",
     content |-> IF content.core.t = "json"
                 THEN parseAssistantResponse(content).message.s
                 ELSE trim(content)]

storedAssistantMessage(content) == AssistantMessage(content)

\* the fetch call: what its continuation reads from the closure, and its body
RequestInitialStats(begun) ==
    [flagStats |-> DefaultFlags,
     difficulty |-> difficulty,
     body |-> [system |-> systemPrompt,
               tally |-> flagStats,
               difficulty |-> difficulty,
               exchanges |-> Len(begun.messages) \div 2,
               messages |-> begun.messages]]

Request(begun) ==
    [flagStats |-> flagStats,
     difficulty |-> difficulty,
     body |-> [system |-> systemPrompt,
               tally |-> flagStats,
               difficulty |-> difficulty,
               exchanges |-> Len(begun.messages) \div 2,
               messages |-> begun.messages]]

\* useChat.ts:124: the text of the second system turn, by what it carries
contextMessage(body) ==
    [green |-> body.tally.green,
     red |-> body.tally.red,
     toleranceRed |-> body.difficulty.toleranceRed,
     minGreenForSecondDate |-> body.difficulty.minGreenForSecondDate,
     exchanges |-> body.exchanges]

SystemTurn(content) == [role |-> "system", content |-> content]

\* useChat.ts:134-141: the messages array of the request body
bodyMessagesContextLast(body) ==
    << SystemTurn(body.system) >> \o body.messages
        \o << SystemTurn(contextMessage(body)) >>

bodyMessages(body) ==
    << SystemTurn(body.system), SystemTurn(contextMessage(body)) >>
        \o body.messages

\* useChat.ts:117-122: the credential check that precedes the fetch
hasApiKeyUnchecked == TRUE

hasApiKey == apiKey

handleSend(input) ==
    /\ ~Writing
    /\ \/ turns < MaxTurns
       \/ isSendDisabled(input)
       \/ sendMessageReturnsEarly(input)
    /\ IF isSendDisabled(input)
       THEN /\ ev' = Event("handleSend", "disabled")
            /\ UNCHANGED <<messages, sending, networkError, requests,
                           storageQueue, expected, turns>>
       ELSE IF sendMessageReturnsEarly(input)
       THEN /\ ev' = Event("handleSend", "returned")
            /\ UNCHANGED <<messages, sending, networkError, requests,
                           storageQueue, expected, turns>>
       ELSE LET begun == beginSend(messages, input)
            IN  /\ messages' = begun.messages
                /\ expected' = NoExpectation
                /\ turns' = turns + 1
                /\ storageQueue' =
                      Append(storageQueue, persistHistory(profileId, begun.messages))
                /\ IF hasApiKey
                   THEN /\ sending' = begun.sending
                        /\ networkError' = begun.networkError
                        /\ requests' = Append(requests, Request(begun))
                        /\ ev' = Event("handleSend", "sent")
                   ELSE \* the throw, the catch and the finally run at once
                        /\ sending' = failSend.sending
                        /\ networkError' = failSend.networkError
                        /\ UNCHANGED requests
                        /\ ev' = Event("handleSend", "nokey")
    /\ UNCHANGED <<profileVars, homeVars, gameVars, promptVars, storeVars, resetting,
                   mounts, resets, applied, pureVars>>

---------------------------------------------------------------------------
(* The fetch of request i settles and sendMessage resumes. *)

AddFlags(a, d) ==
    [green |-> a.green + d.green, red |-> a.red + d.red,
     hardNo |-> a.hardNo \/ d.hardNo]

\* useChat.ts:157: onFlagsDetected(parsedResponse.flagsDetected), the
\* updateFlags of the render that issued the request
onFlagsDetectedTrustsStatus(req, parsedResponse) ==
    LET upd == updateFlags(req.flagStats, parsedResponse.flagsDetected,
                           req.difficulty)
    IN  IF parsedResponse.gameStatus.j = "string"
        THEN [upd EXCEPT !.finalGameStatus = parsedResponse.gameStatus.s.core.txt]
        ELSE upd

onFlagsDetected(req, parsedResponse) ==
    updateFlags(req.flagStats, parsedResponse.flagsDetected, req.difficulty)

\* useChat.ts:151-159 and the finally: a response with response.ok
respondOk(i, content) ==
    /\ ~Writing
    /\ i \in 1..Len(requests)
    /\ LET req == requests[i]
           parsedResponse == parseAssistantResponse(content)
           upd == onFlagsDetected(req, parsedResponse)
           newMessages == Append(messages, storedAssistantMessage(content))
           newStatus == IF upd.finalGameStatus # NULL
                        THEN upd.finalGameStatus ELSE gameStatus
       IN  /\ flagStats' = upd.flagStats
           /\ gameStatus' = newStatus
           /\ messages' = newMessages
           /\ sending' = FALSE
           /\ applied' = AddFlags(applied, parsedResponse.flagsDetected)
           /\ storageQueue' = storageQueue
                  \o << persistFlags(profileId, upd.flagStats, newStatus),
                        persistHistory(profileId, newMessages) >>
           /\ ev' = Event("respondOk", upd.finalGameStatus)
    /\ requests' = [k \in 1..(Len(requests) - 1) |->
                        IF k < i THEN requests[k] ELSE requests[k + 1]]
    /\ UNCHANGED <<profileVars, homeVars, promptVars, networkError, storeVars, resetting,
                   countVars, expected, pureVars>>

FailureKinds == {"transport", "http", "body"}

\* fetch rejects, response.ok is false, or response.json() throws
respondError(i, kind) ==
    /\ ~Writing
    /\ i \in 1..Len(requests)
    /\ networkError' = failSend.networkError
    /\ sending' = failSend.sending
    /\ requests' = [k \in 1..(Len(requests) - 1) |->
                        IF k < i THEN requests[k] ELSE requests[k + 1]]
    /\ ev' = Event("respondError", kind)
    /\ UNCHANGED <<profileVars, homeVars, gameVars, messages, promptVars, storageQueue,
                   storeVars, resetting, countVars, applied, expected,
                   pureVars>>

---------------------------------------------------------------------------
(* ChatScreen.resetGame: resetChat() up to its await.  resetGameState()    *)
(* runs when the removeItem that resetChat awaits has been executed.       *)

resetGame ==
    /\ ~Writing
    /\ resets < MaxResets
    /\ resets' = resets + 1
    /\ resetting' = resetting + 1
    /\ messages' = <<>>
    /\ storageQueue' = storageQueue
          \o << StorageCall("removeItem", "chat", profileId, Absent, "resetChat"),
                persistHistory(profileId, <<>>) >>
    /\ expected' = AfterReset
    /\ ev' = Event("resetGame", "resetChat")
    /\ UNCHANGED <<profileVars, homeVars, gameVars, sending, networkError, promptVars,
                   requests, storeVars, mounts, turns, applied, pureVars>>

---------------------------------------------------------------------------
(* AsyncStorage executes the oldest call; the code awaiting it resumes. *)

call == Head(storageQueue)

\* useGameState.ts:22-33 after the await
loadFlags ==
    /\ call.op = "getItem" /\ call.then = "loadFlags"
    /\ LET parsedFlags == parseStoredFlags(flagsStore[call.id])
       IN  IF parsedFlags.set
           THEN /\ flagStats' = parsedFlags.stats
                /\ gameStatus' = parsedFlags.gameStatus
                /\ storageQueue' = Append(Tail(storageQueue),
                      persistFlags(profileId, parsedFlags.stats,
                                   parsedFlags.gameStatus))
                /\ ev' = Event("loadFlags", "restored")
           ELSE /\ UNCHANGED gameVars
                /\ storageQueue' = Tail(storageQueue)
                /\ ev' = Event("loadFlags", "absent")
    /\ UNCHANGED <<profileVars, homeVars, messages, sending, networkError, promptVars,
                   requests, storeVars, resetting, countVars, applied,
                   expected, pureVars>>

\* useChat.ts:75-87 after the await
loadHistory ==
    /\ call.op = "getItem" /\ call.then = "loadHistory"
    /\ LET parsed == parseStoredHistory(chatStore[call.id])
       IN  IF parsed.set
           THEN /\ messages' = parsed.messages
                /\ storageQueue' = Append(Tail(storageQueue),
                                          persistHistory(profileId, parsed.messages))
                /\ ev' = Event("loadHistory", "restored")
           ELSE /\ UNCHANGED messages
                /\ storageQueue' = Tail(storageQueue)
                /\ ev' = Event("loadHistory", "absent")
    /\ UNCHANGED <<profileVars, homeVars, gameVars, sending, networkError, promptVars,
                   requests, storeVars, resetting, countVars, applied,
                   expected, pureVars>>

\* AsyncStorage.setItem of either effect
setItem ==
    /\ call.op = "setItem"
    /\ call.store \in {"flags", "chat"}
    /\ IF call.store = "flags"
       THEN /\ flagsStore' = [flagsStore EXCEPT ![call.id] = call.value]
            /\ UNCHANGED chatStore
       ELSE /\ chatStore' = [chatStore EXCEPT ![call.id] = call.value]
            /\ UNCHANGED flagsStore
    /\ storageQueue' = Tail(storageQueue)
    /\ ev' = Event("setItem", call.store)
    /\ UNCHANGED <<profileVars, homeVars, gameVars, messages, sending, networkError,
                   promptVars, requests, resetting, countVars, applied,
                   expected, pureVars>>

\* useChat.ts:173 is executed; resetGame resumes with resetGameState()
\* (useGameState.ts:80-84) up to its await
resetGameState ==
    /\ call.op = "removeItem" /\ call.then = "resetChat"
    /\ chatStore' = [chatStore EXCEPT ![call.id] = Absent]
    /\ flagStats' = DefaultFlags
    /\ gameStatus' = NULL
    /\ applied' = DefaultFlags
    /\ resetting' = resetting - 1
    /\ storageQueue' = Tail(storageQueue)
          \o << StorageCall("removeItem", "flags", profileId, Absent, "resetGameState"),
                persistFlags(profileId, DefaultFlags, NULL) >>
    /\ ev' = Event("resetGameState", "none")
    /\ UNCHANGED <<profileVars, homeVars, messages, sending, networkError, promptVars,
                   requests, flagsStore, countVars, expected, pureVars>>

\* useGameState.ts:84 is executed; resetGame is done
resetDone ==
    /\ call.op = "removeItem" /\ call.then = "resetGameState"
    /\ flagsStore' = [flagsStore EXCEPT ![call.id] = Absent]
    /\ storageQueue' = Tail(storageQueue)
    /\ ev' = Event("resetDone", "none")
    /\ UNCHANGED <<profileVars, homeVars, gameVars, messages, sending, networkError,
                   promptVars, requests, chatStore, resetting, countVars,
                   applied, expected, pureVars>>

storageStep ==
    /\ storageQueue # <<>>
    /\ \/ loadFlags
       \/ loadHistory
       \/ setItem
       \/ resetGameState
       \/ resetDone

---------------------------------------------------------------------------
(* The app is restarted, or the screen left and opened again, once the     *)
(* storage calls have settled: a new ChatScreen is mounted.  What the old  *)
(* one still awaits resumes on an unmounted component and sets nothing.    *)

remount ==
    /\ mounts < MaxMounts
    /\ storageQueue = <<>>
    /\ mounts' = mounts + 1
    /\ expected' = [flagStats |-> flagStats, gameStatus |-> gameStatus,
                    messages |-> messages]
    /\ flagStats' = DefaultFlags
    /\ gameStatus' = NULL
    /\ messages' = <<>>
    /\ sending' = FALSE
    /\ loadingPrompt' = TRUE
    /\ systemPrompt' = ""
    /\ promptError' = NULL
    /\ networkError' = NULL
    /\ promptPending' = TRUE
    /\ requests' = <<>>
    /\ storageQueue' = MountEffects(profileId)
    /\ ev' = Event("remount", "none")
    /\ UNCHANGED <<profileVars, homeVars, storeVars, resetting, resets, turns, applied,
                   pureVars>>

---------------------------------------------------------------------------

Next ==
    \/ \E ok \in BOOLEAN : loadPrompt(ok)
    \/ \E input \in UserInputs : handleSend(input)
    \/ \E i \in 1..Len(requests), content \in Completions \cup {FallbackContent} :
          respondOk(i, content)
    \/ \E i \in 1..Len(requests), kind \in FailureKinds : respondError(i, kind)
    \/ resetGame
    \/ storageStep
    \/ remount

Spec == Init /\ [][Next]_vars

(* The remote call of every request resolves or errors, and AsyncStorage   *)
(* executes the calls it was given.                                        *)
fetchSettles ==
    \E i \in 1..Len(requests) :
        \/ \E content \in Completions \cup {FallbackContent} : respondOk(i, content)
        \/ \E kind \in FailureKinds : respondError(i, kind)

\* with the credential set: without it no turn ever awaits a response
InitLive ==
    /\ Init
    /\ apiKey
    /\ difficulty = [toleranceRed |-> 1, minGreenForSecondDate |-> 1]

SpecLive ==
    /\ InitLive /\ [][Next]_vars
    /\ WF_vars(fetchSettles) /\ WF_vars(storageStep)

---------------------------------------------------------------------------
(* The pure functions on their own: the arguments are drawn at the start   *)
(* and the function is applied to them.                                    *)

PureTallies ==
    [green : 0..MaxPureTally, red : 0..MaxPureTally, hardNo : BOOLEAN]
PureDeltas ==
    [green : 0..MaxPureDelta, red : 0..MaxPureDelta, hardNo : BOOLEAN]
PureDifficulties ==
    [toleranceRed : 1..MaxPureLevel, minGreenForSecondDate : 1..MaxPureLevel]

\* the texts a completion may be: empty, white space, plain text, and the
\* JSON texts of null, a number, a string, an array and an object with any
\* of the fields message, flagsDetected (with any of its fields) and
\* gameStatus
HiText == Str(FALSE, PlainCore("hi"))
NestedPayloadText ==
    Str(FALSE, JsonCore(JPayload(JStr(Str(FALSE, PlainCore("inner"))), JUndef, JUndef)))

PureMessages ==
    {JUndef, JStr(EmptyStr), JStr(HiText), JStr(Str(TRUE, PlainCore("hi"))),
     JStr(NestedPayloadText)}
PureCounts == {JUndef} \cup {JNum(n) : n \in 0..MaxPureDelta}
PureFlags ==
    {JUndef} \cup {JFlags(g, r, h) : g \in PureCounts, r \in PureCounts,
                                     h \in {JUndef, JBool(FALSE), JBool(TRUE)}}
PureStatuses ==
    {JUndef, JNull, JStr(Str(FALSE, PlainCore(GAME_OVER))),
     JStr(Str(FALSE, PlainCore(GAME_WON)))}
PurePayloads ==
    {JPayload(m, f, gs) : m \in PureMessages, f \in PureFlags, gs \in PureStatuses}
RawTexts ==
    {Str(ws, core) : ws \in BOOLEAN,
                     core \in {EmptyCore, PlainCore("oops")}
                        \cup {JsonCore(v) : v \in {JNull, JNum(0), JNum(5), JStr(HiText), JArr}
                                                \cup PurePayloads}}

InitPure ==
    /\ InitSystem
    /\ apiKey
    /\ difficulty = [toleranceRed |-> 1, minGreenForSecondDate |-> 1]
    /\ fnIn \in [fn : {"updateFlags"}, stats : PureTallies,
                 detectedFlags : PureDeltas, difficulty : PureDifficulties]
          \cup [fn : {"parseAssistantResponse", "parseAssistantMessage",
                      "sendMessage"},
                raw : RawTexts]
    /\ fnOut = NoCall

systemVars ==
    <<profileVars, homeVars, gameVars, messages, sending, networkError, promptVars,
      requests, storageQueue, storeVars, resetting, countVars, ev, applied,
      expected>>

callUpdateFlags ==
    /\ fnOut = NoCall
    /\ fnIn.fn = "updateFlags"
    /\ fnOut' = updateFlags(fnIn.stats, fnIn.detectedFlags, fnIn.difficulty)
    /\ UNCHANGED <<systemVars, fnIn>>

callParseAssistantResponse ==
    /\ fnOut = NoCall
    /\ fnIn.fn = "parseAssistantResponse"
    /\ fnOut' = parseAssistantResponse(fnIn.raw)
    /\ UNCHANGED <<systemVars, fnIn>>

\* ChatScreen renders a text that parseAssistantMessage returned; rendering
\* that text again applies the function to its own result
callParseAssistantMessage ==
    /\ fnOut = NoCall
    /\ fnIn.fn = "parseAssistantMessage"
    /\ fnOut' = [once |-> parseAssistantMessage(fnIn.raw),
                 twice |-> parseAssistantMessage(parseAssistantMessage(fnIn.raw))]
    /\ UNCHANGED <<systemVars, fnIn>>

\* useChat.ts:156 decodes the completion when the turn is scored, and
\* ChatScreen decodes the same text, stored in the history, when it renders
callBothDecoders ==
    /\ fnOut = NoCall
    /\ fnIn.fn = "sendMessage"
    /\ fnOut' = [scored |-> parseAssistantResponse(fnIn.raw).message,
                 rendered |-> parseAssistantMessage(fnIn.raw)]
    /\ UNCHANGED <<systemVars, fnIn>>

NextPure ==
    \/ callUpdateFlags
    \/ callParseAssistantResponse
    \/ callParseAssistantMessage
    \/ callBothDecoders

SpecPure == InitPure /\ [][NextPure]_vars

---------------------------------------------------------------------------
(* The mount of ChatScreen over a store that holds any text: what an       *)
(* earlier session wrote, or a text the hooks did not write.               *)

StoredFlagsTexts ==
    {Absent} \cup {ForeignText(k) : k \in ForeignKinds}
        \cup {JsonText([stats |-> [green |-> 1, red |-> 0, hardNo |-> FALSE],
                        gameStatus |-> NULL])}

StoredChatTexts ==
    {Absent} \cup {ForeignText(k) : k \in ForeignKinds}
        \cup {JsonText(<< UserMessage(Str(FALSE, PlainCore("hi"))),
                          AssistantMessage(PlainReply) >>)}

InitLoad ==
    /\ InitHooks
    /\ flagsStore \in [Chars -> StoredFlagsTexts]
    /\ chatStore \in [Chars -> StoredChatTexts]
    /\ fnIn = NoCall
    /\ fnOut = NoCall

mountStep ==
    /\ storageQueue # <<>>
    /\ \/ loadFlags
       \/ loadHistory
       \/ setItem

NextLoad ==
    \/ \E ok \in BOOLEAN : loadPrompt(ok)
    \/ mountStep

SpecLoad == InitLoad /\ [][NextLoad]_vars

---------------------------------------------------------------------------
(* Match removal.  No ChatScreen is mounted (profileId is "none") while    *)
(* Homepage and CharacterSelect are shown; the store holds the records of  *)
(* earlier conversations with the characters of HomeChars.  The position   *)
(* in the deck of CharacterSelect is not part of the model: swipeRight is  *)
(* given the profile on top of the deck.                                   *)

HomeChars == {"c1", "c2"}
profiles == <<"c1", "c2">>

StoredFlagsRecord ==
    JsonText([stats |-> [green |-> 1, red |-> 0, hardNo |-> FALSE],
              gameStatus |-> NULL])
StoredHistoryRecord ==
    JsonText(<< UserMessage(Str(FALSE, PlainCore("hi"))),
                AssistantMessage(PlainReply) >>)

\* Homepage.tsx:371-398: the characters that have a stored, non-empty history
loadConversations(store) ==
    SelectSeq(profiles, LAMBDA c : store[c] # Absent)

\* matched.filter(id => id !== profileId)
Without(ids, removedId) == SelectSeq(ids, LAMBDA c : c # removedId)

\* Homepage.tsx:408-413 and CharacterSelect.tsx:224-229: Promise.all of the
\* two removals; the caller resumes when the second has been executed
removeRecordsChatOnly(id, then) ==
    << StorageCall("removeItem", "chat", id, Absent, then) >>

removeRecords(id, then) ==
    << StorageCall("removeItem", "chat", id, Absent, "none"),
       StorageCall("removeItem", "flags", id, Absent, then) >>

InitHome ==
    /\ profileId = "none"
    /\ difficulty = [toleranceRed |-> 1, minGreenForSecondDate |-> 1]
    /\ apiKey = TRUE
    /\ flagStats = DefaultFlags
    /\ gameStatus = NULL
    /\ messages = <<>>
    /\ sending = FALSE
    /\ loadingPrompt = TRUE
    /\ systemPrompt = ""
    /\ promptError = NULL
    /\ networkError = NULL
    /\ promptPending = FALSE
    /\ requests = <<>>
    /\ storageQueue = <<>>
    /\ flagsStore \in [HomeChars -> {Absent, StoredFlagsRecord}]
    /\ chatStore \in [HomeChars -> {Absent, StoredHistoryRecord}]
    /\ matchedStore \in {Absent, JsonText(profiles)}
    /\ conversations = loadConversations(chatStore)
    /\ resetting = 0
    /\ mounts = 0
    /\ resets = 0
    /\ turns = 0
    /\ ev = Event("home", "none")
    /\ applied = DefaultFlags
    /\ expected = NoExpectation
    /\ fnIn = NoCall
    /\ fnOut = NoCall

hookVars ==
    <<difficulty, apiKey, gameVars, messages, sending, networkError,
      loadingPrompt, systemPrompt, promptError, requests, resetting, resets,
      turns, applied, expected, pureVars>>

\* Homepage.tsx:406-413: the press on a conversation's delete button
deleteConversation(id) ==
    /\ profileId = "none"
    /\ \E k \in 1..Len(conversations) : conversations[k] = id
    /\ Len(storageQueue) + 2 <= MaxHomeCalls
    /\ storageQueue' = storageQueue \o removeRecords(id, "deleteConversation")
    /\ ev' = Event("deleteConversation", id)
    /\ UNCHANGED <<hookVars, profileId, promptPending, mounts, storeVars,
                   homeVars>>

\* CharacterSelect.tsx:222-229: the swipe animation has ended (the chat
\* opens before the next card can be swiped)
swipeRight(id) ==
    /\ profileId = "none"
    /\ \A k \in 1..Len(storageQueue) : storageQueue[k].then # "swipeRight"
    /\ Len(storageQueue) + 2 <= MaxHomeCalls
    /\ storageQueue' = storageQueue \o removeRecords(id, "swipeRight")
    /\ ev' = Event("swipeRight", id)
    /\ UNCHANGED <<hookVars, profileId, promptPending, mounts, storeVars,
                   homeVars>>

\* AsyncStorage.removeItem of a record is executed
removed ==
    IF call.store = "flags"
    THEN /\ flagsStore' = [flagsStore EXCEPT ![call.id] = Absent]
         /\ UNCHANGED chatStore
    ELSE /\ chatStore' = [chatStore EXCEPT ![call.id] = Absent]
         /\ UNCHANGED flagsStore

removeItem ==
    /\ call.op = "removeItem" /\ call.then = "none"
    /\ removed
    /\ storageQueue' = Tail(storageQueue)
    /\ ev' = Event("removeItem", call.id)
    /\ UNCHANGED <<hookVars, profileId, promptPending, mounts, homeVars>>

\* Homepage.tsx:414: both removals are done, the matched list is read
deleteConversationRemoved ==
    /\ call.op = "removeItem" /\ call.then = "deleteConversation"
    /\ removed
    /\ storageQueue' = Append(Tail(storageQueue),
          StorageCall("getItem", "matched", call.id, Absent, "deleteConversation"))
    /\ ev' = Event("deleteConversation", "removed")
    /\ UNCHANGED <<hookVars, profileId, promptPending, mounts, homeVars>>

\* Homepage.tsx:415-421: the list is written back without the id when there
\* is one; otherwise the conversation is taken off the screen at once
deleteConversationMatched ==
    /\ call.op = "getItem" /\ call.then = "deleteConversation"
    /\ IF matchedStore # Absent
       THEN /\ storageQueue' = Append(Tail(storageQueue),
                  StorageCall("setItem", "matched", call.id,
                              JsonText(Without(matchedStore.json, call.id)),
                              "deleteConversation"))
            /\ UNCHANGED conversations
       ELSE /\ storageQueue' = Tail(storageQueue)
            /\ conversations' = Without(conversations, call.id)
    /\ ev' = Event("deleteConversation", "matched")
    /\ UNCHANGED <<hookVars, profileId, promptPending, mounts, storeVars,
                   matchedStore>>

\* Homepage.tsx:418-421
deleteConversationDone ==
    /\ call.op = "setItem" /\ call.then = "deleteConversation"
    /\ matchedStore' = call.value
    /\ conversations' = Without(conversations, call.id)
    /\ storageQueue' = Tail(storageQueue)
    /\ ev' = Event("deleteConversation", "done")
    /\ UNCHANGED <<hookVars, profileId, promptPending, mounts, storeVars>>

\* CharacterSelect.tsx:231-232: both removals are done; onSelectCharacter
\* opens the chat, whose hooks run their first effects
swipeRightRemoved ==
    /\ call.op = "removeItem" /\ call.then = "swipeRight"
    /\ removed
    /\ profileId' = call.id
    /\ promptPending' = TRUE
    /\ mounts' = mounts + 1
    /\ storageQueue' = Tail(storageQueue) \o MountEffects(call.id)
    /\ ev' = Event("swipeRight", "removed")
    /\ UNCHANGED <<hookVars, homeVars>>

homeStep ==
    /\ storageQueue # <<>>
    /\ \/ removeItem
       \/ deleteConversationRemoved
       \/ deleteConversationMatched
       \/ deleteConversationDone
       \/ swipeRightRemoved

NextHome ==
    \/ \E id \in HomeChars : deleteConversation(id)
    \/ \E id \in HomeChars : swipeRight(id)
    \/ homeStep
    \/ mountStep
    \/ \E ok \in BOOLEAN : loadPrompt(ok)

SpecHome == InitHome /\ [][NextHome]_vars

---------------------------------------------------------------------------
(* The hooks are rendered again with another profile.  ChatScreen stays    *)
(* mounted, so every useState keeps its value; the storage keys change,    *)
(* and every effect that names a key or the profile in its dependencies    *)
(* runs again, in the order the hooks declare them.                        *)

\* useGameState.ts:20-49 and useChat.ts:45-103 for a changed profile.id
SwitchEffects(id, stats, status, msgs) ==
    << StorageCall("getItem", "flags", id, Absent, "loadFlags"),
       persistFlags(id, stats, status),
       StorageCall("getItem", "chat", id, Absent, "loadHistory"),
       persistHistory(id, msgs) >>

\* what the store holds for the character when its profile is rendered
Switched(id) ==
    [switched |-> id, flagsRaw |-> flagsStore[id], raw |-> chatStore[id]]

switchCharacter(id) ==
    /\ ~Writing
    /\ id # profileId
    /\ mounts < MaxMounts
    /\ mounts' = mounts + 1
    /\ profileId' = id
    /\ promptPending' = TRUE
    /\ storageQueue' = storageQueue
          \o SwitchEffects(id, flagStats, gameStatus, messages)
    /\ expected' = Switched(id)
    /\ ev' = Event("switchCharacter", id)
    /\ UNCHANGED <<difficulty, apiKey, homeVars, gameVars, messages, sending,
                   networkError, loadingPrompt, systemPrompt, promptError,
                   requests, storeVars, resetting, resets, turns, applied,
                   pureVars>>

InitSwitch ==
    /\ InitHooks
    /\ difficulty = [toleranceRed |-> 1, minGreenForSecondDate |-> 2]
    /\ apiKey
    /\ \E flagsRaw \in {Absent, StoredFlagsRecord} :
          flagsStore = [c \in HomeChars |-> IF c = "c1" THEN Absent ELSE flagsRaw]
    /\ \E raw \in {Absent, StoredHistoryRecord} :
          chatStore = [c \in HomeChars |-> IF c = "c1" THEN Absent ELSE raw]
    /\ fnIn = NoCall
    /\ fnOut = NoCall

\* the completions of the conversation with the first character
SwitchCompletions == {ReplyPayload(1, 0, FALSE), PlainReply}

NextSwitch ==
    \/ \E id \in HomeChars : switchCharacter(id)
    \/ \E ok \in BOOLEAN : loadPrompt(ok)
    \/ \E input \in UserInputs : handleSend(input)
    \/ \E i \in 1..Len(requests), content \in SwitchCompletions :
          respondOk(i, content)
    \/ \E i \in 1..Len(requests), kind \in FailureKinds : respondError(i, kind)
    \/ mountStep

SpecSwitch == InitSwitch /\ [][NextSwitch]_vars

---------------------------------------------------------------------------
(* Claims. *)

Loses(stats, diff) == stats.red >= diff.toleranceRed \/ stats.hardNo
Wins(stats, diff) == stats.green >= diff.minGreenForSecondDate

C3_TerminalStatusIsFinal ==
    [][(gameStatus # NULL /\ ev'.name \notin {"resetGameState", "remount"})
          => (gameStatus' = gameStatus /\ flagStats' = flagStats)]_vars

Last(seq) == seq[Len(seq)]

C8_ResetIsAtomic ==
    (resetting > 0 /\ ev.name = "resetGame" /\ messages = <<>>)
        => (flagStats = DefaultFlags /\ gameStatus = NULL)

\* C9: once a reset has completed and the storage calls have settled, with
\* no submit since, the store holds neither record of the character.
C9_ResetDeletesRecords ==
    (/\ expected = AfterReset
     /\ resetting = 0
     /\ storageQueue = <<>>
     /\ messages = <<>> /\ flagStats = DefaultFlags /\ gameStatus = NULL)
        => (flagsStore[profileId] = Absent /\ chatStore[profileId] = Absent)

\* C10: when ChatScreen is mounted again after the storage calls settled,
\* then, once the calls of the new mount have settled and with no submit or
\* reset since, tally, status and history are in memory and in the store
\* what they were before.
C10_StatePersistsAcrossMount ==
    (/\ mounts > 1
     /\ expected \notin {NoExpectation, AfterReset}
     /\ storageQueue = <<>>)
        => /\ flagStats = expected.flagStats
           /\ gameStatus = expected.gameStatus
           /\ messages = expected.messages
           /\ flagsStore[profileId] =
                 JsonText([stats |-> expected.flagStats,
                           gameStatus |-> expected.gameStatus])
           /\ chatStore[profileId] = JsonText(expected.messages)

\* a finished game with its history, restored
C10_Witness ==
    /\ mounts > 1
    /\ expected \notin {NoExpectation, AfterReset}
    /\ storageQueue = <<>>
    /\ gameStatus = GAME_WON
    /\ Len(messages) = 2
    /\ flagStats.green > 0

\* C11: when the text loadFlags reads is absent, empty, not JSON or JSON
\* without the record's fields, the load leaves tally {0,0,false} and status
\* null; when the text loadHistory reads is absent, empty, not JSON or JSON
\* that is not an array, the load leaves the history empty; neither load
\* changes promptError or networkError.
C11_LoadFailsSoft ==
    [][ /\ storageQueue # <<>> /\ storageQueue' # storageQueue
        /\ Head(storageQueue).op = "getItem"
        => /\ promptError' = promptError
           /\ networkError' = networkError
           /\ (/\ Head(storageQueue).then = "loadFlags"
               /\ \/ flagsStore[profileId] = Absent
                  \/ IsForeign(flagsStore[profileId]))
                => (flagStats' = DefaultFlags /\ gameStatus' = NULL)
           /\ (/\ Head(storageQueue).then = "loadHistory"
               /\ \/ chatStore[profileId] = Absent
                  \/ IsForeign(chatStore[profileId]))
                => messages' = <<>> ]_vars

\* loadFlags has read a text that is not JSON and loadHistory is about to
\* read JSON that is not an array
C11_Witness ==
    /\ ev.name = "loadFlags"
    /\ flagsStore[profileId] = ForeignText("garbage")
    /\ chatStore[profileId] = ForeignText("object")
    /\ flagStats = DefaultFlags /\ gameStatus = NULL
    /\ promptError = NULL /\ networkError = NULL

IsObject(raw) == raw.core.t = "json" /\ raw.core.val.j = "payload"

\* C12: for every completion text that is not the JSON text of an object
\* (text that is not JSON, or the JSON text of a number, a string, an array
\* or null) parseAssistantResponse returns message = trim(raw),
\* flagsDetected = {0,0,false} and gameStatus = null.
C12_UndecodableTextIsMessage ==
    (/\ fnIn # NoCall /\ fnIn.fn = "parseAssistantResponse"
     /\ fnOut # NoCall
     /\ ~IsObject(fnIn.raw))
        => fnOut = [message |-> JStr(trim(fnIn.raw)),
                    flagsDetected |-> DefaultFlags,
                    gameStatus |-> JNull]

\* the structure a payload encodes: a field that is absent has its default
DefaultOf(v, d) == IF v = JUndef THEN d ELSE v

Encoded(payload) ==
    LET f == payload.flagsDetected
    IN  [message |-> DefaultOf(payload.message, JStr(EmptyStr)),
         flagsDetected |->
            [green |-> IF f = JUndef THEN 0 ELSE DefaultOf(f.green, JNum(0)).n,
             red |-> IF f = JUndef THEN 0 ELSE DefaultOf(f.red, JNum(0)).n,
             hardNo |-> IF f = JUndef THEN FALSE
                        ELSE DefaultOf(f.hardNo, JBool(FALSE)).b],
         gameStatus |-> DefaultOf(payload.gameStatus, JNull)]

\* C13: for every object with a string message, counts that are
\* non-negative integers, a boolean hardNo and a gameStatus that is
\* GAME_OVER, GAME_WON or null, each of them possibly absent,
\* parseAssistantResponse of the object's JSON text returns the same
\* structure, with the default ("", 0, 0, false, null) for an absent field.
C13_ParserRoundTrip ==
    (/\ fnIn # NoCall /\ fnIn.fn = "parseAssistantResponse"
     /\ fnOut # NoCall
     /\ IsObject(fnIn.raw))
        => fnOut = Encoded(fnIn.raw.core.val)

\* the text of {message:"hi", flagsDetected:{green:1,red:0,hardNo:false},
\* gameStatus:null} was decoded
C13_Witness ==
    /\ fnIn # NoCall /\ fnIn.fn = "parseAssistantResponse"
    /\ fnIn.raw = Str(FALSE, JsonCore(JPayload(JStr(HiText),
                          JFlags(JNum(1), JNum(0), JBool(FALSE)), JNull)))
    /\ fnOut = [message |-> JStr(HiText),
                flagsDetected |-> [green |-> 1, red |-> 0, hardNo |-> FALSE],
                gameStatus |-> JNull]

\* C14: for every text, parseAssistantMessage applied to its own result
\* returns that result.
C14_DisplayTextIdempotent ==
    (/\ fnIn # NoCall /\ fnIn.fn = "parseAssistantMessage"
     /\ fnOut # NoCall)
        => fnOut.twice = fnOut.once

\* C15: the green and red counts of the tally are never negative, and a
\* delta applied while there is no status lowers neither count and does not
\* turn hardNo from true to false.
C15_TallyIsMonotonic ==
    /\ [](flagStats.green >= 0 /\ flagStats.red >= 0)
    /\ [][ (ev'.name = "respondOk" /\ requests' # requests /\ gameStatus = NULL)
            => /\ flagStats'.green >= flagStats.green
               /\ flagStats'.red >= flagStats.red
               /\ flagStats.hardNo => flagStats'.hardNo ]_vars

IsPrefix(a, b) == Len(a) <= Len(b) /\ SubSeq(b, 1, Len(a)) = a

\* C16: every step of a mounted ChatScreen other than a reset that changes
\* the message sequence extends it at its end.
C16_HistoryIsAppendOnly ==
    [][ (messages' # messages /\ ev'.name \notin {"resetGame", "remount"})
            => IsPrefix(messages, messages') ]_vars

\* C17: without a credential no request is ever outstanding, and a submit
\* that passes the guard sets the error and issues no request.
C17_NoRequestWithoutCredential ==
    /\ [](~apiKey => requests = <<>>)
    /\ [][\A input \in UserInputs :
            (handleSend(input) /\ turns' # turns /\ ~apiKey) =>
                /\ networkError' = NetworkErrorText
                /\ requests' = <<>>
                /\ ~sending']_vars

\* a submit made without a credential
C17_Witness ==
    /\ ~apiKey
    /\ ev = Event("handleSend", "nokey")
    /\ networkError = NetworkErrorText
    /\ requests = <<>>

\* C18: when the script failed to load or the credential is missing, a
\* submit changes neither history, tally nor status, and an error message is
\* displayed after it.
C18_ConfigurationErrorDisablesSubmit ==
    [][\A input \in UserInputs :
        (/\ handleSend(input)
         /\ ~loadingPrompt
         /\ promptError # NULL \/ ~apiKey) =>
            /\ messages' = messages
            /\ flagStats' = flagStats /\ gameStatus' = gameStatus
            /\ promptError' # NULL \/ networkError' # NULL]_vars

C20_PersistedBeforeReturn ==
    (ev.name = "respondOk" /\ flagsStore[profileId] # Absent) =>
        flagsStore[profileId] =
            JsonText([stats |-> flagStats, gameStatus |-> gameStatus])

\* C21: the messages of the request a submit issues are, in order: a system
\* turn with the script, a system turn with the current green and red
\* counts, the character's toleranceRed and minGreenForSecondDate and the
\* count floor(n / 2) for the n messages of the history including the one
\* just appended, then those n messages in history order.
C21_RequestBody ==
    [][\A input \in UserInputs :
        (handleSend(input) /\ requests' # requests) =>
            bodyMessages(Last(requests').body) =
                << SystemTurn(systemPrompt),
                   SystemTurn([green |-> flagStats.green,
                               red |-> flagStats.red,
                               toleranceRed |-> difficulty.toleranceRed,
                               minGreenForSecondDate |->
                                   difficulty.minGreenForSecondDate,
                               exchanges |-> (Len(messages) + 1) \div 2]) >>
                \o Append(messages, UserMessage(trim(input)))]_vars

\* the request of a second turn, whose tally and count are not zero
C21_Witness ==
    /\ ev = Event("handleSend", "sent")
    /\ requests # <<>>
    /\ Last(requests).body.exchanges = 1
    /\ Last(requests).body.tally.green = 1
    /\ Len(Last(requests).body.messages) = 3
    /\ Last(requests).body.system = PromptText

\* C22: whenever the busy flag is set it is eventually cleared again, given
\* only that the remote call of every request resolves or errors and that
\* AsyncStorage executes its calls.
C22_TurnReturnsToIdle == sending ~> ~sending

\* a turn came back to idle because the response had a non-success status
C22_Witness ==
    /\ ev = Event("respondError", "http")
    /\ ~sending
    /\ requests = <<>>

\* C23: when the removals of deleteConversation(id) or of the swipe-right
\* match of id have been executed, neither the flags record nor the
\* history record of id is stored, and no step of Homepage or
\* CharacterSelect changes a record of another character.
C23_MatchRemoval ==
    [][ storageQueue # <<>> =>
          /\ ev' \in {Event("deleteConversation", "removed"),
                     Event("swipeRight", "removed")}
                => /\ flagsStore'[Head(storageQueue).id] = Absent
                   /\ chatStore'[Head(storageQueue).id] = Absent
          /\ \A c \in HomeChars :
                (flagsStore'[c] # flagsStore[c] \/ chatStore'[c] # chatStore[c])
                    => c = Head(storageQueue).id ]_vars

\* the conversation with c1 was deleted while c2 has both records
C23_Witness ==
    /\ ev = Event("deleteConversation", "done")
    /\ flagsStore["c1"] = Absent /\ chatStore["c1"] = Absent
    /\ flagsStore["c2"] = StoredFlagsRecord
    /\ chatStore["c2"] = StoredHistoryRecord
    /\ conversations = <<"c2">>

\* C24: in a conversation started from the empty tally with toleranceRed >= 1
\* and minGreenForSecondDate >= 1 the status agrees with the current tally:
\* GAME_WON only when green has reached minGreenForSecondDate with red below
\* toleranceRed and no hard no, GAME_OVER only when red has reached
\* toleranceRed or a hard no was seen, null only when neither is the case.
Lost(stats, diff) == stats.red >= diff.toleranceRed \/ stats.hardNo
Won(stats, diff) ==
    /\ stats.green >= diff.minGreenForSecondDate
    /\ stats.red < diff.toleranceRed
    /\ ~stats.hardNo

StatusOf(stats, diff) ==
    IF Lost(stats, diff) THEN GAME_OVER
    ELSE IF Won(stats, diff) THEN GAME_WON
    ELSE NULL

C24_StatusAgreesWithTally ==
    (difficulty.toleranceRed >= 1 /\ difficulty.minGreenForSecondDate >= 1)
        => gameStatus = StatusOf(flagStats, difficulty)


\* C25: the gameStatus field of the completion has no influence on the local
\* game: when a response is processed, the tally and the status that result
\* are the ones that result from any completion with the same message and
\* the same flagsDetected, whatever gameStatus that completion reports.
SameButStatus(c1, c2) ==
    /\ parseAssistantResponse(c1).message = parseAssistantResponse(c2).message
    /\ parseAssistantResponse(c1).flagsDetected
          = parseAssistantResponse(c2).flagsDetected

C25_CompletionStatusIgnored ==
    [][ (ev'.name = "respondOk" /\ Len(messages') = Len(messages) + 1) =>
          \A other \in Completions :
             SameButStatus(Last(messages').content, other) =>
                \E i \in 1..Len(requests) :
                   LET scored == onFlagsDetected(requests[i],
                                                 parseAssistantResponse(other))
                   IN  /\ flagStats' = scored.flagStats
                       /\ gameStatus' = IF scored.finalGameStatus # NULL
                                        THEN scored.finalGameStatus
                                        ELSE gameStatus ]_vars

C25_Witness ==
    /\ ev.name = "respondOk"
    /\ messages # <<>>
    /\ Last(messages).content = StatusReply(GAME_WON)
    /\ gameStatus = NULL
    /\ flagStats = DefaultFlags

\* C26: a reset is not undone by a request that was in flight when it
\* happened: once resetGame has completed, and until the next submit, the
\* tally is {0, 0, false}, the status is null and the history is empty.
ResetCompleted ==
    /\ expected = AfterReset
    /\ resetting = 0
    /\ \A k \in 1..Len(storageQueue) :
          storageQueue[k].then \notin {"resetChat", "resetGameState"}

C26_ResetSurvivesLateResponse ==
    ResetCompleted
        => (flagStats = DefaultFlags /\ gameStatus = NULL /\ messages = <<>>)

\* C27: in every reachable history every assistant message is immediately
\* preceded by a user message: no history starts with an assistant message
\* and no two assistant messages are adjacent.
C27_AssistantFollowsUser ==
    \A k \in 1..Len(messages) :
        messages[k].role = "assistant"
            => (k > 1 /\ messages[k - 1].role = "user")

\* C28: character isolation.  From the render of the hooks with another
\* character id and until the next submit, the records stored under the
\* new character's keys hold that character's persisted state (or the
\* defaults when it had none), never the previous character's, and once
\* the storage calls have settled the tally, status and history in memory
\* are that character's persisted state, or the defaults.
OwnFlags(rec) ==
    LET parsedFlags == parseStoredFlags(rec.flagsRaw)
    IN  IF parsedFlags.set
        THEN [stats |-> parsedFlags.stats, gameStatus |-> parsedFlags.gameStatus]
        ELSE [stats |-> DefaultFlags, gameStatus |-> NULL]

OwnHistory(rec) ==
    LET parsed == parseStoredHistory(rec.raw)
    IN  IF parsed.set THEN parsed.messages ELSE <<>>

C28_CharacterIsolation ==
    ("switched" \in DOMAIN expected) =>
        /\ flagsStore[profileId] \in {expected.flagsRaw, JsonText(OwnFlags(expected))}
        /\ chatStore[profileId] \in {expected.raw, JsonText(OwnHistory(expected))}
        /\ (storageQueue = <<>> /\ requests = <<>>) =>
              /\ flagStats = OwnFlags(expected).stats
              /\ gameStatus = OwnFlags(expected).gameStatus
              /\ messages = OwnHistory(expected)

\* C29: the two decoders agree on the display text: for every raw completion
\* text x, trim(parseAssistantResponse(x).message) = parseAssistantMessage(x).
C29_DecodersAgree ==
    (fnIn.fn = "sendMessage" /\ fnOut # NoCall)
        => (/\ fnOut.scored.j = "string"
            /\ trim(fnOut.scored.s) = fnOut.rendered)

\* C30: a new submit clears the previous error: a submit that passes the
\* guard of sendMessage leaves no error message, none is shown while the
\* turn is in progress, and an error message appears only when the turn in
\* progress fails (or the submit itself fails for want of a credential).
C30_SubmitClearsError ==
    [][ /\ ev' = Event("handleSend", "sent") => networkError' = NULL
        /\ sending' => networkError' = NULL
        /\ (networkError' # NULL /\ networkError = NULL)
              => \/ ev'.name = "respondError" /\ sending
                 \/ ev' = Event("handleSend", "nokey") ]_vars

\* the second submit, after a first turn that failed
C30_Witness ==
    /\ ev = Event("handleSend", "sent")
    /\ sending /\ networkError = NULL
    /\ turns = 2 /\ mounts = 1 /\ resets = 0
    /\ Len(messages) = 2
    /\ messages[1].role = "user" /\ messages[2].role = "user"

====
